---------------------------- MODULE Spec2Model ----------------------------
(***************************************************************************)
(* Model of the vector retrieval core of rag-chatbot: class VectorStore of *)
(* src/vector_store.py (a FAISS IndexFlatIP index, the parallel texts and  *)
(* metadatas lists, and the two snapshot files vector_index.faiss and      *)
(* metadata.pkl).                                                          *)
(*                                                                         *)
(* Positions are 0-based exactly as in the Python code; TLA+ sequences are *)
(* 1-based, so position p of a list is element p + 1 of its sequence.      *)
(***************************************************************************)
EXTENDS Integers, Sequences, FiniteSets, TLC

(***************************************************************************)
(* Bounds of the model.                                                    *)
(***************************************************************************)
\* longest texts / embeddings / metadatas argument of one add_documents call
MaxBatch == 2
\* add_documents is not called once the index would grow past MaxVectors
\* vectors, or texts or metadatas past MaxTexts entries
MaxVectors == 3
MaxTexts == 2
\* largest k passed to similarity_search
MaxK == 3
\* chunk_text is called with texts of at most MaxTextLen characters,
\* max_chunk_size in 1..MaxChunkSize and overlap in 0..MaxOverlap
MaxTextLen == 5
MaxChunkSize == 3
MaxOverlap == 3
\* the ingestion paths are followed while a store holds at most MaxStored
\* texts
MaxStored == 3

(***************************************************************************)
(* Program constants.                                                      *)
(***************************************************************************)
\* VectorStore.__init__(dimension=1536), data.get('dimension', 1536)
DefaultDimension == 1536
\* VectorStore(dimension=768) of GeminiRAGSystem and DocumentEmbeddingProcessor
GeminiDimension == 768

\* self.index = None (a faiss index is [init |-> TRUE, d |-> d, vecs |-> rows])
None == [init |-> FALSE, d |-> 0, vecs |-> <<>>]
\* a Python list argument, and None passed in its place
PyList(items) == [none |-> FALSE, items |-> items]
NoneArg == [none |-> TRUE, items |-> <<>>]
\* a file is [state, index, record]: state "absent" (os.path.exists is
\* False), "corrupt" (it exists but cannot be deserialized: truncated by a
\* failed write) or "ok", and then index holds the faiss index written to
\* vector_index.faiss, record the dictionary pickled to metadata.pkl
NoRecord == [texts |-> <<>>, metadatas |-> <<>>, dimension |-> 0]
Absent == [state |-> "absent", index |-> None, record |-> NoRecord]
Corrupt == [state |-> "corrupt", index |-> None, record |-> NoRecord]
IndexFileOf(ix) == [state |-> "ok", index |-> ix, record |-> NoRecord]
MetadataFileOf(rec) == [state |-> "ok", index |-> None, record |-> rec]
\* the score faiss reports for a missing neighbour (-FLT_MAX, with label -1);
\* no inner product of two rows has d2 = 0
NegMax == [n |-> -1, d2 |-> 0]

(***************************************************************************)
(* The documents a caller can pass.  Document d has one text, one metadata *)
(* mapping and, for each embedding model (vector width), one embedding.    *)
(***************************************************************************)
Docs == {1, 2}
Widths == {1, 2}

TextOf(d) == <<"text", d>>
MetaOf(d) == <<"meta", d>>

\* the embedding of document d under the model of width w (not normalized)
Emb(d, w) ==
    IF w = 1
    THEN (IF d = 1 THEN <<1>> ELSE <<-2>>)
    ELSE (IF d = 1 THEN <<1, 2>> ELSE <<3, 3>>)

\* query embeddings
Queries == {<<1, 0>>, <<0, 1>>, <<1>>}


(***************************************************************************)
(* Vectors.  A unit vector v / |v| is represented exactly as the record    *)
(* [num |-> v, den2 |-> v.v]; an inner product of two unit vectors is the  *)
(* real n / sqrt(d2), represented as [n |-> n, d2 |-> d2].                 *)
(***************************************************************************)
RECURSIVE Dot(_, _)
Dot(a, b) == IF a = <<>> THEN 0 ELSE Head(a) * Head(b) + Dot(Tail(a), Tail(b))

\* faiss.normalize_L2 on one row: a zero row is left as it is
normalize_L2(v) == [num |-> v, den2 |-> IF Dot(v, v) = 0 THEN 1 ELSE Dot(v, v)]

\* the inner product of two normalized rows stored by IndexFlatIP
InnerProduct(a, b) == [n |-> Dot(a.num, b.num), d2 |-> a.den2 * b.den2]

Sign(x) == IF x > 0 THEN 1 ELSE IF x < 0 THEN -1 ELSE 0

\* a > b for two scores (float comparison of n / sqrt(d2))
ScoreGT(a, b) ==
    IF a = NegMax THEN FALSE
    ELSE IF b = NegMax THEN TRUE
    ELSE Sign(a.n) * a.n * a.n * b.d2 > Sign(b.n) * b.n * b.n * a.d2

ScoreGE(a, b) == ~ScoreGT(b, a)

(***************************************************************************)
(* np.array(embeddings, dtype=np.float32): a list of rows of one width     *)
(* becomes a 2-D array; rows of different widths raise ValueError.  (An    *)
(* empty list becomes a 1-D array, which has no shape[1] and which faiss   *)
(* does not take: the statements that follow raise before any change.)     *)
(***************************************************************************)
np_array(rows) ==
    IF rows # <<>> /\ \A i, j \in 1..Len(rows) : Len(rows[i]) = Len(rows[j])
    THEN [ok |-> TRUE, width |-> Len(rows[1]), rows |-> rows]
    ELSE [ok |-> FALSE, width |-> 0, rows |-> <<>>]

(***************************************************************************)
(* faiss.IndexFlatIP                                                       *)
(***************************************************************************)
IndexFlatIP(d) == [init |-> TRUE, d |-> d, vecs |-> <<>>]

\* index.ntotal, and the "self.index.ntotal if self.index else 0" of get_stats
ntotal(ix) == IF ix = None THEN 0 ELSE Len(ix.vecs)

\* index.add without the width assertion: rows of any width are appended
IndexAdd_NoWidthAssert(ix, arr) ==
    [ok |-> TRUE, index |-> [ix EXCEPT !.vecs = @ \o arr.rows]]

\* index.add(embeddings_array): faiss asserts that the array's width is the
\* index's d (AssertionError otherwise) and appends the rows in order
IndexAdd(ix, arr) ==
    IF arr.width = ix.d
    THEN [ok |-> TRUE, index |-> [ix EXCEPT !.vecs = @ \o arr.rows]]
    ELSE [ok |-> FALSE, index |-> ix]

\* the score of the vector at position p against the normalized query qn
ScoreAt(ix, qn, p) == InnerProduct(qn, ix.vecs[p + 1])

\* position p2 is reported before position p: a larger inner product first,
\* equal inner products in insertion order
Before(ix, qn, p2, p) ==
    \/ ScoreGT(ScoreAt(ix, qn, p2), ScoreAt(ix, qn, p))
    \/ /\ ~ScoreGT(ScoreAt(ix, qn, p), ScoreAt(ix, qn, p2))
       /\ p2 < p

\* the labels in `left`, best first, each with its score
RECURSIVE BestFirst(_, _, _)
BestFirst(ix, qn, left) ==
    IF left = {}
    THEN <<>>
    ELSE LET p == CHOOSE p \in left : \A p2 \in left \ {p} : Before(ix, qn, p, p2)
         IN  <<[score |-> ScoreAt(ix, qn, p), idx |-> p]>>
                 \o BestFirst(ix, qn, left \ {p})

\* index.search(query_array, k) for k >= 1: k (score, label) pairs, best
\* first; when the index holds fewer than k vectors the rest is (-FLT_MAX, -1)
IndexSearch(ix, qn, k) ==
    LET n == Len(ix.vecs)
        found == SubSeq(BestFirst(ix, qn, 0..(n - 1)), 1, IF k <= n THEN k ELSE n)
    IN  found \o [i \in 1..(k - Len(found)) |-> [score |-> NegMax, idx |-> -1]]

(***************************************************************************)
(* Python list indexing lst[idx]: a negative idx counts from the end, an   *)
(* idx outside -len..len-1 raises IndexError.                              *)
(***************************************************************************)
PyIndexOK(lst, idx) == -Len(lst) <= idx /\ idx < Len(lst)
PyGet(lst, idx) == IF idx >= 0 THEN lst[idx + 1] ELSE lst[Len(lst) + idx + 1]

Min(a, b) == IF a <= b THEN a ELSE b

(***************************************************************************)
(* The store object: [index, texts, metadatas, dimension].                 *)
(***************************************************************************)

\* similarity_search without the early return of line 45
StoreIsEmpty_GuardMissing(st) == FALSE

\* similarity_search line 45: "if self.index is None or len(self.texts) == 0"
StoreIsEmpty(st) == st.index = None \/ Len(st.texts) = 0

\* similarity_search line 53: "if idx < len(self.texts)"
PositionOK(st, idx) == idx < Len(st.texts)

\* similarity_search line 49: "k = min(k, len(self.texts))"
EffectiveK(st, k) == Min(k, Len(st.texts))

\* similarity_search line 58: 'rank': i + 1, for the i-th pair (i from 0;
\* here the pairs are numbered from 1, so the rank is the pair's number)
RankOfPair(i) == i

\* similarity_search lines 51-60: the loop over the pairs from the i-th on.
\* Result: raised (IndexError in the loop body) and the entries appended.
RECURSIVE CollectResults(_, _, _)
CollectResults(st, hits, i) ==
    IF i > Len(hits)
    THEN [raised |-> FALSE, results |-> <<>>]
    ELSE
    LET idx == hits[i].idx IN
    IF ~PositionOK(st, idx)
    THEN CollectResults(st, hits, i + 1)
    ELSE IF ~PyIndexOK(st.texts, idx) \/ ~PyIndexOK(st.metadatas, idx)
    THEN [raised |-> TRUE, results |-> <<>>]
    ELSE
    LET rest == CollectResults(st, hits, i + 1) IN
    IF rest.raised
    THEN rest
    ELSE [raised  |-> FALSE,
          results |-> <<[text     |-> PyGet(st.texts, idx),
                         metadata |-> PyGet(st.metadatas, idx),
                         score    |-> hits[i].score,
                         rank     |-> RankOfPair(i)]>> \o rest.results]

\* VectorStore.similarity_search(query_embedding, k).  Result: raised (the
\* call raised "Error during similarity search"), results (the returned
\* list) and hits (the pairs index.search returned).
similarity_search(st, q, k) ==
    IF StoreIsEmpty(st)
    THEN [raised |-> FALSE, results |-> <<>>, hits |-> <<>>]
    ELSE
    LET k1 == EffectiveK(st, k) IN
    IF st.index = None \/ k1 <= 0
    THEN \* None has no search(); faiss asserts k > 0
         [raised |-> TRUE, results |-> <<>>, hits |-> <<>>]
    ELSE IF Len(q) # st.index.d
    THEN \* faiss asserts the query width is the index's d
         [raised |-> TRUE, results |-> <<>>, hits |-> <<>>]
    ELSE
    LET hits == IndexSearch(st.index, normalize_L2(q), k1)
        loop == CollectResults(st, hits, 1)
    IN  [raised |-> loop.raised, results |-> loop.results, hits |-> hits]

\* VectorStore.get_stats()
get_stats(st) ==
    [total_documents   |-> Len(st.texts),
     vector_dimensions |-> IF st.index # None THEN st.dimension ELSE 0,
     index_size        |-> ntotal(st.index)]

\* an early return that tests texts only: "if not texts: return"
NothingToAdd_TextsOnly(texts_in, embeddings_in) == texts_in = <<>>

\* add_documents line 22: "if not texts or not embeddings: return"
NothingToAdd(texts_in, embeddings_in) == texts_in = <<>> \/ embeddings_in = <<>>

\* "self.dimension = embeddings_array.shape[1]" outside the "if"
DimensionForAdd_Always(st, arr) == arr.width

\* add_documents lines 25-26: self.dimension after the "if self.index is None"
DimensionForAdd(st, arr) == IF st.index = None THEN arr.width ELSE st.dimension

\* an "if self.index is None" block that creates the index and leaves the
\* two lists
PrepareIndex_KeepsLists(st, arr) ==
    [st EXCEPT !.index = IF st.index = None
                         THEN IndexFlatIP(DimensionForAdd(st, arr)) ELSE @,
               !.dimension = DimensionForAdd(st, arr)]

\* add_documents lines 25-29: the store after the "if self.index is None" block
PrepareIndex(st, arr) ==
    IF st.index = None
    THEN [index     |-> IndexFlatIP(DimensionForAdd(st, arr)),
          texts     |-> <<>>,
          metadatas |-> <<>>,
          dimension |-> DimensionForAdd(st, arr)]
    ELSE [st EXCEPT !.dimension = DimensionForAdd(st, arr)]

\* faiss.normalize_L2(embeddings_array)
NormalizeRows(arr) == [arr EXCEPT !.rows = [i \in 1..Len(arr.rows) |-> normalize_L2(arr.rows[i])]]

(***************************************************************************)
(* VectorStore.add_documents(texts, embeddings, metadatas), up to the call *)
(* of _save_index.  Result: raised (the call raised "Error adding          *)
(* documents to vector store"), step (the statement that raised, or        *)
(* "return" for the early return, or "save" when _save_index is reached)   *)
(* and st (the store object when the call stops or reaches _save_index).   *)
(***************************************************************************)
add_documents(st, texts_in, embeddings_in, metadatas_in) ==
    IF NothingToAdd(texts_in, embeddings_in)
    THEN [raised |-> FALSE, step |-> "return", st |-> st]
    ELSE
    LET arr == np_array(embeddings_in) IN
    IF ~arr.ok
    THEN [raised |-> TRUE, step |-> "np.array", st |-> st]
    ELSE
    LET st1 == PrepareIndex(st, arr)
        added == IndexAdd(st1.index, NormalizeRows(arr))
    IN
    IF ~added.ok
    THEN [raised |-> TRUE, step |-> "index.add", st |-> st1]
    ELSE
    LET st2 == [st1 EXCEPT !.index = added.index, !.texts = @ \o texts_in] IN
    IF metadatas_in.none
    THEN \* self.metadatas.extend(None): TypeError
         [raised |-> TRUE, step |-> "metadatas.extend", st |-> st2]
    ELSE [raised |-> FALSE, step |-> "save",
          st |-> [st2 EXCEPT !.metadatas = @ \o metadatas_in.items]]

(***************************************************************************)
(* The snapshot: files [index_file, metadata_file].                        *)
(***************************************************************************)

\* the outcomes of the two writes of _save_index: both succeed, write_index
\* raises, or open / pickle.dump of the metadata file raises
SaveOutcomes == {"ok", "write_index fails", "pickle.dump fails"}

\* what a write that raised leaves of the file: the old file (it was never
\* opened) or a truncated one
AfterFailedWrite(old) == {old, Corrupt}

\* VectorStore._save_index(): the possible file pairs after the call.  Every
\* exception is caught and printed, so the call itself never raises.
_save_index(st, files, io) ==
    LET written == IF st.index # None THEN IndexFileOf(st.index) ELSE files.index_file
        record  == MetadataFileOf([texts |-> st.texts, metadatas |-> st.metadatas,
                                   dimension |-> st.dimension])
    IN  CASE io = "write_index fails" /\ st.index # None ->
               {[index_file |-> f, metadata_file |-> files.metadata_file] :
                    f \in AfterFailedWrite(files.index_file)}
          [] io = "pickle.dump fails" ->
               {[index_file |-> written, metadata_file |-> f] :
                    f \in AfterFailedWrite(files.metadata_file)}
          [] OTHER ->
               {[index_file |-> written, metadata_file |-> record]}

\* an "except" branch that only drops the index
LoadFailed_KeepsLists(st) == [st EXCEPT !.index = None]

\* the "except" branch of _load_index
LoadFailed(st) == [st EXCEPT !.index = None, !.texts = <<>>, !.metadatas = <<>>]

\* _load_index line 105: "if os.path.exists(self.index_file) and self.texts"
ShouldReadIndex(st, files) == files.index_file # Absent /\ st.texts # <<>>

\* VectorStore._load_index() on the store object st
_load_index(st, files) ==
    IF files.metadata_file = Corrupt
    THEN LoadFailed(st)
    ELSE
    LET st1 == IF files.metadata_file = Absent
               THEN st
               ELSE [st EXCEPT !.texts     = files.metadata_file.record.texts,
                               !.metadatas = files.metadata_file.record.metadatas,
                               !.dimension = files.metadata_file.record.dimension]
    IN  IF ShouldReadIndex(st1, files)
        THEN IF files.index_file = Corrupt
             THEN LoadFailed(st1)
             ELSE [st1 EXCEPT !.index = files.index_file.index]
        ELSE st1

\* VectorStore.__init__(dimension)
VectorStore(dim, files) ==
    _load_index([index |-> None, texts |-> <<>>, metadatas |-> <<>>,
                 dimension |-> dim], files)

\* a clear() that drops the index and leaves the two lists
clear_KeepsLists(st) == [st EXCEPT !.index = None]

\* VectorStore.clear(): the store object afterwards (both files are removed)
clear(st) == [st EXCEPT !.index = None, !.texts = <<>>, !.metadatas = <<>>]

(***************************************************************************)
(* The calls a client makes.  A caller builds the three arguments from one *)
(* batch of documents, position by position (texts[i], the embedding of    *)
(* texts[i], the metadata of texts[i]); nothing in add_documents makes it  *)
(* pass three lists of one length, rows of one width, or a metadatas list  *)
(* at all.  A call is a batch, the width of the embedding model, and one   *)
(* defect of the arguments (or none).                                      *)
(***************************************************************************)
\* a batch: at most MaxBatch different documents, in ascending order
Batches ==
    {b \in UNION {[1..n -> Docs] : n \in 1..MaxBatch} :
        \A i \in 1..(Len(b) - 1) : b[i] < b[i + 1]}

Defects == {"none", "texts short", "embeddings short", "metadatas short",
            "metadatas None", "ragged"}

\* all but the last element
Front(lst) == SubSeq(lst, 1, Len(lst) - 1)

\* "ragged": the first row has the model's width, the others the other width
RowWidth(w, defect, i) ==
    IF defect = "ragged" /\ i > 1 THEN (IF w = 1 THEN 2 ELSE 1) ELSE w

CallOf(b, w, defect) ==
    LET t == [i \in 1..Len(b) |-> TextOf(b[i])]
        e == [i \in 1..Len(b) |-> Emb(b[i], RowWidth(w, defect, i))]
        m == [i \in 1..Len(b) |-> MetaOf(b[i])]
    IN  [texts      |-> IF defect = "texts short" THEN Front(t) ELSE t,
         embeddings |-> IF defect = "embeddings short" THEN Front(e) ELSE e,
         metadatas  |-> IF defect = "metadatas None" THEN NoneArg
                        ELSE IF defect = "metadatas short" THEN PyList(Front(m))
                        ELSE PyList(m)]

AddCalls == {CallOf(b, w, defect) : b \in Batches, w \in Widths, defect \in Defects}

\* the calls of a client that passes three lists of one length and uses one
\* embedding model
AlignedCalls == {CallOf(b, 2, "none") : b \in Batches}

(***************************************************************************)
(* chunk_text (src/utils.py).  A text is a sequence of characters; an      *)
(* offset is a Python offset (the first character has offset 0), so the    *)
(* character at offset i of text is text[i + 1].                           *)
(***************************************************************************)
\* the characters the texts of the model are made of: a letter, a full
\* stop, a space and a newline
Alphabet == {"a", ".", " ", "\n"}

\* the characters str.strip() removes and \s matches
Whitespace == {" ", "\n"}

\* the characters the patterns of line 39 start with: r'\.\s+', r'\!\s+', r'\?\s+'
SentenceEnders == {".", "!", "?"}

Max(a, b) == IF a >= b THEN a ELSE b

\* text[a:b] for 0 <= a
Slice(text, a, b) == SubSeq(text, a + 1, Min(b, Len(text)))

RECURSIVE lstrip(_)
lstrip(s) == IF s # <<>> /\ Head(s) \in Whitespace THEN lstrip(Tail(s)) ELSE s

RECURSIVE rstrip(_)
rstrip(s) ==
    IF s # <<>> /\ s[Len(s)] \in Whitespace
    THEN rstrip(SubSeq(s, 1, Len(s) - 1))
    ELSE s

\* s.strip()
strip(s) == rstrip(lstrip(s))

\* the offset at which the run of characters of the set chars that ends at
\* offset e (exclusive) begins, looking no further back than offset lo
RECURSIVE RunStart(_, _, _, _)
RunStart(text, chars, lo, e) ==
    IF e > lo /\ text[e] \in chars THEN RunStart(text, chars, lo, e - 1) ELSE e

\* match.end() of the matches re.finditer finds in text[lo:hi] for the three
\* patterns "sentence ender, then \s+": the run of whitespace is as long as
\* the slice allows, and the character before it, inside the slice, is a
\* sentence ender
PunctuationBreaks(text, lo, hi) ==
    {e \in (lo + 2)..hi :
        /\ text[e] \in Whitespace
        /\ (e = hi \/ text[e + 1] \notin Whitespace)
        /\ LET s == RunStart(text, Whitespace, lo, e) IN
           s > lo /\ text[s] \in SentenceEnders}

\* match.end() of the matches of r'\n\n' in text[lo:hi]: finditer takes the
\* newlines of a run in pairs from the start of the run
BlankLineBreaks(text, lo, hi) ==
    {e \in (lo + 2)..hi :
        LET s == RunStart(text, {"\n"}, lo, e) IN
        e - s >= 2 /\ (e - s) % 2 = 0}

\* line 36: the number of characters before end in which lines 39-41 look
\* for a sentence break
SearchBack == 200

\* lines 36-41: sentence_breaks
sentence_breaks(text, start, end) ==
    LET search_start == Max(end - SearchBack, start) IN
    PunctuationBreaks(text, search_start, end)
        \cup BlankLineBreaks(text, search_start, end)

SetMax(S) == CHOOSE x \in S : \A y \in S : y <= x

\* lines 33-44: the end of the window that begins at start
WindowEnd(text, start, max_chunk_size) ==
    LET end == start + max_chunk_size IN
    IF end < Len(text) /\ sentence_breaks(text, start, end) # {}
    THEN SetMax(sentence_breaks(text, start, end))
    ELSE end

\* a next start one character too far: with overlap 0 the character at end
\* is in no window
NextStart_SkipsOne(start, end, overlap) == Max(end - overlap + 1, start + 1)

\* a next start that is not forced past the previous one
NextStart_NoAdvance(start, end, overlap) == Max(end - overlap, start)

\* line 50
NextStart(start, end, overlap) == Max(end - overlap, start + 1)

\* a loop that goes on while start <= len(text)
LoopEnds_Late(text, start) == start > Len(text)

\* lines 32 and 52: the loop ends
LoopEnds(text, start) == start >= Len(text)

\* lines 26-27: the text is returned without a loop
ShortText(text, max_chunk_size) == text = <<>> \/ Len(text) <= max_chunk_size

\* line 27
ShortResult(text) == IF text # <<>> THEN <<text>> ELSE <<>>

\* lines 46-48: chunks after the window [start, end) is cut
WithChunk(chunks, text, start, end) ==
    LET chunk == strip(Slice(text, start, end)) IN
    IF chunk # <<>> THEN Append(chunks, chunk) ELSE chunks

\* lines 32-53: the loop, from the state (start, chunks)
RECURSIVE ChunkLoop(_, _, _, _, _)
ChunkLoop(text, max_chunk_size, overlap, start, chunks) ==
    IF LoopEnds(text, start)
    THEN chunks
    ELSE LET end == WindowEnd(text, start, max_chunk_size) IN
         ChunkLoop(text, max_chunk_size, overlap, NextStart(start, end, overlap),
                   WithChunk(chunks, text, start, end))

\* chunk_text(text, max_chunk_size, overlap)
chunk_text(text, max_chunk_size, overlap) ==
    IF ShortText(text, max_chunk_size)
    THEN ShortResult(text)
    ELSE ChunkLoop(text, max_chunk_size, overlap, 0, <<>>)

(***************************************************************************)
(* clean_text and is_meaningful_content (src/utils.py).                    *)
(***************************************************************************)
\* the characters \w matches, of which the texts of the model use "a"
WordChars == {"a", "1", "_"}

\* the punctuation the character class of line 13 keeps
KeptPunctuation == {"-", ".", ",", "!", "?", ":", ";", "\"", "'", "(", ")"}

\* a character of a text that a re.sub leaves in place ("" marks a
\* character the substitution takes out)
IsKept(c) == c # ""

\* clean_text(text), lines 4-22: each re.sub works on the value the one
\* before it returned
clean_text(text) ==
    LET \* line 10: re.sub(r'\s+', ' ', text)
        Spaced(t) ==
            SelectSeq([i \in 1..Len(t) |->
                          IF t[i] \notin Whitespace THEN t[i]
                          ELSE IF i > 1 /\ t[i - 1] \in Whitespace THEN ""
                          ELSE " "],
                      IsKept)
        \* line 13: re.sub(r'[^\w\s\-.,!?:;"\'()]', ' ', text)
        Plain(t) ==
            [i \in 1..Len(t) |->
                IF t[i] \in WordChars \cup Whitespace \cup KeptPunctuation
                THEN t[i] ELSE " "]
        \* line 16: re.sub(r'[.]{3,}', '...', text)
        Dotted(t) ==
            SelectSeq([i \in 1..Len(t) |->
                          IF i > 3 /\ \A j \in (i - 3)..i : t[j] = "."
                          THEN "" ELSE t[i]],
                      IsKept)
        \* line 19: re.sub(r'["\']{2,}', '"', text)
        Quoted(t) ==
            SelectSeq([i \in 1..Len(t) |->
                          IF t[i] \notin {"\"", "'"} THEN t[i]
                          ELSE IF i > 1 /\ t[i - 1] \in {"\"", "'"} THEN ""
                          ELSE IF i < Len(t) /\ t[i + 1] \in {"\"", "'"} THEN "\""
                          ELSE t[i]],
                      IsKept)
    IN  IF text = <<>>
        THEN <<>>
        ELSE CHOOSE cleaned \in
                 {strip(Quoted(d)) :
                     d \in {Dotted(p) :
                         p \in {Plain(s) :
                             s \in {Spaced(t) : t \in {text}}}}} : TRUE

\* c.isalnum()
IsAlnum(c) == c \in WordChars \ {"_"}

\* line 136: min_length
MinLength == 50

\* is_meaningful_content(text), lines 136-146
is_meaningful_content(text) ==
    /\ text # <<>>
    /\ Len(strip(text)) >= MinLength
    /\ ~(10 * Len(SelectSeq(text, IsAlnum)) < 3 * Len(text))

(***************************************************************************)
(* The ingestion paths: GeminiRAGSystem.add_documents up to the embedding  *)
(* (src/gemini_rag_system.py), DocumentProcessor.process_pdf               *)
(* (src/document_processor.py) and the file loop of                        *)
(* DocumentEmbeddingProcessor.process_folder (src/process_documents.py).   *)
(***************************************************************************)
\* the arguments every caller passes to chunk_text
ChunkSize == 1000
ChunkOverlap == 200

\* n letters
Letters(n) == [i \in 1..n |-> "a"]

\* a text of ChunkSize + 1 characters with a sentence break in the last 200
\* characters of its first window
LongText == Letters(ChunkSize - 100) \o <<".", " ">> \o Letters(99)

\* a document as the producers hand it over (content, source, title, type),
\* or a chunk of it with its chunk_id and total_chunks; chunk_id -1 stands
\* for a record without the keys chunk_id and total_chunks
Document(content, source, type) ==
    [content |-> content, source |-> source, title |-> source, type |-> type,
     chunk_id |-> -1, total_chunks |-> -1]

\* the metadata stored with a text; type "" stands for a mapping without
\* the key type
Metadata(source, title, type, chunk_id, total_chunks) ==
    [source |-> source, title |-> title, type |-> type,
     chunk_id |-> chunk_id, total_chunks |-> total_chunks]

\* gemini_rag_system.py lines 27-49: texts and metadatas of the documents;
\* a document without content is passed over (line 36)
RECURSIVE ChunksOfDocuments(_)
ChunksOfDocuments(documents) ==
    IF documents = <<>>
    THEN [texts |-> <<>>, metadatas |-> <<>>]
    ELSE LET doc    == Head(documents)
             chunks == IF strip(doc.content) = <<>>
                       THEN <<>>
                       ELSE chunk_text(doc.content, ChunkSize, ChunkOverlap)
             rest   == ChunksOfDocuments(Tail(documents))
         IN  [texts     |-> chunks \o rest.texts,
              metadatas |-> [i \in 1..Len(chunks) |->
                                 Metadata(doc.source, doc.title, "", i - 1, Len(chunks))]
                                \o rest.metadatas]

\* the embedding the Gemini model returns for a text (width 2 in the model)
EmbedText(text) == <<1 + (Len(text) % 3), 1>>

\* generate_embeddings, process_documents.py lines 39-58: the zero vector
\* of line 56 stands for an embedding whose call failed
generate_embeddings(texts_in, outcome) ==
    [i \in 1..Len(texts_in) |->
        IF outcome = "ok" THEN EmbedText(texts_in[i]) ELSE <<0, 0>>]

\* document_processor.py line 27: the heading of page 1 ("\n\nPage 1:\n")
PageHeading == <<"\n", "\n", "a", "a", "a", "a", " ", "1", ":", "\n">>

\* process_pdf, document_processor.py lines 15-56, on a readable file
process_pdf(file) ==
    LET full_text == IF file.content # <<>> THEN PageHeading \o file.content ELSE <<>> IN
    IF strip(full_text) # <<>>
    THEN <<Document(clean_text(full_text), file.name, "pdf_text")>>
    ELSE <<>>

\* process_documents.py lines 97-119: the documents of a text file
TextFileDocuments(file) ==
    IF ~is_meaningful_content(file.content)
    THEN <<>>
    ELSE CHOOSE documents \in
             {[i \in 1..Len(chunks) |->
                  [Document(chunks[i], file.name, "text_file")
                      EXCEPT !.chunk_id = i - 1, !.total_chunks = Len(chunks)]] :
              chunks \in {chunk_text(text, ChunkSize, ChunkOverlap) :
                             text \in {clean_text(file.content)}}} : TRUE

\* process_documents.py lines 90-125: the documents of one file (none when
\* the file is skipped or its processing raises)
FileDocuments(file) ==
    IF file.suffix = ".pdf"
    THEN IF file.readable THEN process_pdf(file) ELSE <<>>
    ELSE TextFileDocuments(file)

\* the pages the scraper has saved, as load_scraped_documents returns them:
\* none, one long page, or a short page and a blank one
ScrapeResults ==
    {<<>>,
     <<Document(LongText, "faq", "web_page")>>,
     <<Document(Letters(60), "help", "web_page"),
       Document(<<" ">>, "empty", "web_page")>>}

\* the files ./test_documents can hold: a PDF whose text is long, a PDF
\* pdfplumber cannot open, a long text file and a text file with too little
\* content
FolderFiles ==
    {[name |-> "long.pdf", suffix |-> ".pdf", readable |-> TRUE, content |-> LongText],
     [name |-> "broken.pdf", suffix |-> ".pdf", readable |-> FALSE, content |-> <<>>],
     [name |-> "long.txt", suffix |-> ".txt", readable |-> TRUE, content |-> LongText],
     [name |-> "tiny.txt", suffix |-> ".txt", readable |-> TRUE,
      content |-> <<"a", " ", "a">>]}

\* FileDocuments of each file of the model, computed once
FileDocumentsTable ==
    {[file |-> f, documents |-> FileDocuments(f)] : f \in FolderFiles}

\* ChunksOfDocuments of each list of scraped pages, computed once
ScrapeChunksTable ==
    {[documents |-> d, chunks |-> ChunksOfDocuments(d)] : d \in ScrapeResults}

\* process_documents.py lines 86-125: all_documents
RECURSIVE AllDocuments(_)
AllDocuments(files) ==
    IF files = <<>> THEN <<>>
    ELSE (CHOOSE e \in FileDocumentsTable : e.file = Head(files)).documents
             \o AllDocuments(Tail(files))

\* process_documents.py lines 143-144: doc.get('chunk_id', 0) and
\* doc.get('total_chunks', 1)
MetadataOfDocument(doc) ==
    Metadata(doc.source, doc.title, doc.type,
             IF doc.chunk_id = -1 THEN 0 ELSE doc.chunk_id,
             IF doc.total_chunks = -1 THEN 1 ELSE doc.total_chunks)

\* the folder does not exist
MissingFolder == [exists |-> FALSE, files |-> <<>>]
Folder(files) == [exists |-> TRUE, files |-> files]

(***************************************************************************)
(* process_folder(folder, clear_existing) on the store object st with the  *)
(* two files, the embedding calls ending as outcome says.  Result: st and  *)
(* files afterwards, cleared (clear() was called), added (the number of    *)
(* texts passed to add_documents) and raised.                              *)
(***************************************************************************)
process_folder(st, files, folder, clear_existing, outcome) ==
    LET absent  == [index_file |-> Absent, metadata_file |-> Absent]
        st1     == IF clear_existing THEN clear(st) ELSE st
        files1  == IF clear_existing THEN absent ELSE files
        docs    == AllDocuments(folder.files)
        texts_in     == [i \in 1..Len(docs) |-> docs[i].content]
        metadatas_in == [i \in 1..Len(docs) |-> MetadataOfDocument(docs[i])]
        r       == add_documents(st1, texts_in,
                                 generate_embeddings(texts_in, outcome),
                                 PyList(metadatas_in))
    IN  IF ~folder.exists
        THEN [st |-> st, files |-> files, cleared |-> FALSE, added |-> 0,
              raised |-> FALSE]
        ELSE IF folder.files = <<>> \/ docs = <<>>
        THEN [st |-> st1, files |-> files1, cleared |-> clear_existing,
              added |-> 0, raised |-> FALSE]
        ELSE [st      |-> r.st,
              files   |-> IF r.step = "save"
                          THEN CHOOSE f \in _save_index(r.st, files1, "ok") : TRUE
                          ELSE files1,
              cleared |-> clear_existing,
              added   |-> Len(texts_in),
              raised  |-> r.raised]

(***************************************************************************)
(* State.                                                                  *)
(***************************************************************************)
VARIABLES
    index,          \* self.index: None or a faiss index
    texts,          \* self.texts
    metadatas,      \* self.metadatas
    dimension,      \* self.dimension
    index_file,     \* the file vector_index.faiss
    metadata_file,  \* the file metadata.pkl
    lastOp,         \* the last call on the store: its arguments and outcome
    fixedDim,       \* history: the width of the vectors of the first add of
                    \* this store object that stored documents (0: none yet)
    procs,          \* the processes that share the working directory, each
                    \* with its own store object: procs[p] = [pc, store, stats]
    chunker,        \* the call of chunk_text in progress: its arguments, its
                    \* position, start, the chunks and the windows cut so far
    session,        \* st.session_state of one session of app.py, whose
                    \* rag_system.vector_store is the store object above:
                    \* process_docs (the store object of its
                    \* DocumentEmbeddingProcessor), documents_loaded, and
                    \* last, its last action
    rag             \* the GeminiRAGSystem whose vector_store is the store
                    \* object above: its position in add_documents, the
                    \* embedding tasks of its worker pool, and its last call

vars == <<index, texts, metadatas, dimension, index_file, metadata_file,
          lastOp, fixedDim, procs, rag, chunker, session>>

\* the state outside the one store object the variables above describe
outside == <<procs, rag, chunker, session>>

Store == [index |-> index, texts |-> texts, metadatas |-> metadatas,
          dimension |-> dimension]

Files == [index_file |-> index_file, metadata_file |-> metadata_file]

SetStore(st) ==
    /\ index' = st.index
    /\ texts' = st.texts
    /\ metadatas' = st.metadatas
    /\ dimension' = st.dimension

SetFiles(f) ==
    /\ index_file' = f.index_file
    /\ metadata_file' = f.metadata_file

\* lastOp.args: the arguments of add_documents (texts, embeddings, metadatas)
\* or of similarity_search (q, k)
NoArgs == [texts |-> <<>>, embeddings |-> <<>>, metadatas |-> NoneArg,
           q |-> <<>>, k |-> 0]

Op(name, args, raised, step, results, hits) ==
    [op |-> name, args |-> args, raised |-> raised, step |-> step,
     results |-> results, hits |-> hits, stale |-> 0]

\* lastOp.stale of a call of add_documents on the store st: the number of
\* texts st held without an index when the call began
StaleTexts(st) == IF st.index = None THEN Len(st.texts) ELSE 0

\* the programs of the repository that construct a VectorStore in the
\* working directory: the Streamlit application (its GeminiRAGSystem) and the
\* process_documents script (its DocumentEmbeddingProcessor)
Processes == {"app.py", "process_documents.py"}

\* get_stats() of the empty store
EmptyStats == [total_documents |-> 0, vector_dimensions |-> 0, index_size |-> 0]

\* a process that has constructed its store and is in no call of it; stats
\* is what its last get_stats() returned (none yet)
ProcessStart(files) ==
    [pc |-> "idle", store |-> VectorStore(GeminiDimension, files),
     stats |-> EmptyStats]

\* session.last when the session has done nothing yet.  op is the button or
\* "query" or "script" (a run of process_documents.py); added: the number
\* of texts passed to the store; cleared: clear() was called; raised: an
\* exception reached the handler; retrieved: the number of texts a query
\* found
NoAction == [op |-> "none", added |-> 0, cleared |-> FALSE, raised |-> FALSE,
             retrieved |-> 0]

\* app.py lines 18-29: st.session_state of a session that begins with the
\* two files as they are
NewSessionState(files) ==
    [process_docs     |-> VectorStore(GeminiDimension, files),
     documents_loaded |-> FALSE,
     last             |-> NoAction]

\* no call of chunk_text is in progress
NoChunking ==
    [pc |-> "none", text |-> <<>>, max_chunk_size |-> 0, overlap |-> 0,
     start |-> 0, chunks |-> <<>>, windows |-> <<>>]

\* rag.last when no call of the GeminiRAGSystem has returned yet.  op is
\* "add_documents" or "query"; raised: the call raised; for add_documents:
\* the texts of the batch, embedded (_generate_embeddings returned), the
\* embeddings it returned, the positions whose embed_single failed and the
\* order in which the tasks finished; for query: the answer, the sources and
\* the call that failed inside the try block ("" when none did)
NoCall == [op |-> "none", raised |-> FALSE, texts |-> <<>>, embedded |-> FALSE,
           embeddings |-> <<>>, failed |-> {}, order |-> <<>>,
           answer |-> "", sources |-> <<>>, cause |-> ""]

\* a GeminiRAGSystem in no call: no batch, no embedding task
RagIdle(last) ==
    [pc |-> "idle", texts |-> <<>>, metadatas |-> <<>>, futures |-> <<>>,
     order |-> <<>>, last |-> last]

\* a fresh process (store = VectorStore()) in a working directory without snapshot files
Init ==
    /\ LET st == VectorStore(DefaultDimension,
                              [index_file |-> Absent, metadata_file |-> Absent])
       IN  /\ index = st.index
           /\ texts = st.texts
           /\ metadatas = st.metadatas
           /\ dimension = st.dimension
    /\ index_file = Absent
    /\ metadata_file = Absent
    /\ lastOp = Op("init", NoArgs, FALSE, "", <<>>, <<>>)
    /\ fixedDim = 0
    /\ procs = [p \in Processes |->
                    ProcessStart([index_file |-> Absent, metadata_file |-> Absent])]
    /\ rag = RagIdle(NoCall)
    /\ chunker = NoChunking
    /\ session = NewSessionState([index_file |-> Absent, metadata_file |-> Absent])

\* store.add_documents(c.texts, c.embeddings, c.metadatas), the writes of
\* _save_index ending as io says
AddWith(c, io) ==
    LET r == add_documents(Store, c.texts, c.embeddings, c.metadatas) IN
    /\ Len(r.st.texts) <= MaxTexts
    /\ Len(r.st.metadatas) <= MaxTexts
    /\ ntotal(r.st.index) <= MaxVectors
    /\ SetStore(r.st)
    /\ IF r.step = "save"
       THEN \E f \in _save_index(r.st, Files, io) : SetFiles(f)
       ELSE UNCHANGED <<index_file, metadata_file>>
    /\ lastOp' = [Op("add", [NoArgs EXCEPT !.texts = c.texts,
                                           !.embeddings = c.embeddings,
                                           !.metadatas = c.metadatas],
                     r.raised, r.step, <<>>, <<>>)
                      EXCEPT !.stale = StaleTexts(Store)]
    /\ fixedDim' = IF fixedDim = 0 /\ r.step = "save"
                   THEN Len(c.embeddings[1]) ELSE fixedDim
    /\ UNCHANGED outside

\* add_documents with any arguments, on a disk that takes every write
Add == \E c \in AddCalls : AddWith(c, "ok")

\* store.similarity_search(query_embedding, k)
Search ==
    \E q \in Queries, k \in -1..MaxK :
        LET r == similarity_search(Store, q, k) IN
        /\ lastOp' = Op("search", [NoArgs EXCEPT !.q = q, !.k = k],
                        r.raised, "", r.results, r.hits)
        /\ UNCHANGED <<index, texts, metadatas, dimension, index_file,
                       metadata_file, fixedDim, outside>>

\* store.clear()
Clear ==
    /\ SetStore(clear(Store))
    /\ index_file' = Absent
    /\ metadata_file' = Absent
    /\ lastOp' = Op("clear", NoArgs, FALSE, "", <<>>, <<>>)
    /\ UNCHANGED <<fixedDim, outside>>

\* store.vector_store._load_index() on the live object (simple_app.py,
\* "Reload Vector Store")
Reload ==
    /\ SetStore(_load_index(Store, Files))
    /\ lastOp' = Op("reload", NoArgs, FALSE, "", <<>>, <<>>)
    /\ UNCHANGED <<index_file, metadata_file, fixedDim, outside>>

\* the process ends and a new one constructs VectorStore() in the same
\* working directory
Restart ==
    /\ SetStore(VectorStore(DefaultDimension, Files))
    /\ lastOp' = Op("restart", NoArgs, FALSE, "", <<>>, <<>>)
    /\ fixedDim' = 0
    /\ UNCHANGED <<index_file, metadata_file, outside>>

Next == Add \/ Search \/ Clear \/ Reload \/ Restart

Spec == Init /\ [][Next]_vars

(***************************************************************************)
(* The same store on a disk whose writes can fail, used by one client that *)
(* passes well-formed arguments: no call of add_documents raises.          *)
(***************************************************************************)
AddIO == \E c \in AlignedCalls, io \in SaveOutcomes : AddWith(c, io)

NextIO == AddIO \/ Clear \/ Restart

SpecIO == Init /\ [][NextIO]_vars

(***************************************************************************)
(* The same store when the process can stop inside add_documents and the   *)
(* snapshot files can be deleted from the working directory.  The client   *)
(* passes well-formed arguments and the disk takes every write.            *)
(***************************************************************************)
\* where the process stops: after the in-memory update (line 35) and before
\* _save_index, part-way through faiss.write_index (line 86), between the two
\* writes, or part-way through pickle.dump (lines 87-92)
CrashPoints == {"before save", "in write_index", "between writes", "in pickle.dump"}

\* the two files when a process holding store st stops at `point`: a file
\* whose write was interrupted is truncated
FilesAtCrash(st, files, point) ==
    CASE point = "before save" -> files
      [] point = "in write_index" ->
             [index_file |-> Corrupt, metadata_file |-> files.metadata_file]
      [] point = "between writes" ->
             [index_file |-> IndexFileOf(st.index), metadata_file |-> files.metadata_file]
      [] OTHER ->
             [index_file |-> IndexFileOf(st.index), metadata_file |-> Corrupt]

\* the process has not stopped
Alive == lastOp.op # "crash"

\* store.add_documents(c.texts, c.embeddings, c.metadatas), the process
\* stopping at `point`; the variables of the object keep what the process
\* held when it stopped
CrashInAdd ==
    \E c \in AlignedCalls, point \in CrashPoints :
        LET r == add_documents(Store, c.texts, c.embeddings, c.metadatas) IN
        /\ Alive
        /\ Len(r.st.texts) <= MaxTexts
        /\ Len(r.st.metadatas) <= MaxTexts
        /\ ntotal(r.st.index) <= MaxVectors
        /\ SetStore(r.st)
        /\ SetFiles(FilesAtCrash(r.st, Files, point))
        /\ lastOp' = Op("crash", [NoArgs EXCEPT !.texts = c.texts,
                                                !.embeddings = c.embeddings,
                                                !.metadatas = c.metadatas],
                        FALSE, point, <<>>, <<>>)
        /\ UNCHANGED <<fixedDim, outside>>

\* someone removes vector_index.faiss or metadata.pkl from the working
\* directory
DeleteArtifact ==
    \E which \in {"vector_index.faiss", "metadata.pkl"} :
        /\ IF which = "vector_index.faiss"
           THEN /\ index_file # Absent
                /\ index_file' = Absent
                /\ UNCHANGED metadata_file
           ELSE /\ metadata_file # Absent
                /\ metadata_file' = Absent
                /\ UNCHANGED index_file
        /\ lastOp' = Op("delete", NoArgs, FALSE, which, <<>>, <<>>)
        /\ UNCHANGED <<index, texts, metadatas, dimension, fixedDim, outside>>

\* the calls of a process that has not stopped
AddAligned == Alive /\ \E c \in AlignedCalls : AddWith(c, "ok")

ClearAlive == Alive /\ Clear

NextFaults == AddAligned \/ ClearAlive \/ CrashInAdd \/ DeleteArtifact \/ Restart

SpecFaults == Init /\ [][NextFaults]_vars

(***************************************************************************)
(* The processes that share the working directory.  Each holds its own     *)
(* store object and runs add_documents, clear and the reads statement by   *)
(* statement; no statement of the repository takes a lock, so the          *)
(* statements of different processes interleave freely.  procs[p].pc is    *)
(* the position of process p:                                              *)
(*   "idle"             in no call of its store                            *)
(*   "add: updated"     in add_documents, lines 24-35 done (index, texts   *)
(*                      and metadatas hold the batch), _save_index not yet *)
(*   "add: index saved" in _save_index, line 86 done, lines 87-92 not yet  *)
(*   "clear: reset"     in clear, lines 66-68 done, lines 69-72 not yet    *)
(*   "read"             in get_stats (or similarity_search)                *)
(***************************************************************************)
SetProc(p, pc, st) == procs' = [procs EXCEPT ![p].pc = pc, ![p].store = st]

storeVars == <<index, texts, metadatas, dimension, lastOp, fixedDim, rag,
              chunker, session>>

\* the well-formed calls process p makes: the application ingests document
\* 1, the script document 2
CallsOf(p) == {CallOf(<<IF p = "app.py" THEN 1 ELSE 2>>, 2, "none")}

\* p enters add_documents and runs it up to the call of _save_index
BeginAdd(p) ==
    \E c \in CallsOf(p) :
        LET r == add_documents(procs[p].store, c.texts, c.embeddings, c.metadatas) IN
        /\ procs[p].pc = "idle"
        /\ Len(r.st.texts) <= MaxTexts
        /\ Len(r.st.metadatas) <= MaxTexts
        /\ ntotal(r.st.index) <= MaxVectors
        /\ SetProc(p, IF r.step = "save" THEN "add: updated" ELSE "idle", r.st)
        /\ UNCHANGED <<index_file, metadata_file, storeVars>>

\* _save_index line 86: faiss.write_index(self.index, self.index_file)
WriteIndexFile(p) ==
    /\ procs[p].pc = "add: updated"
    /\ index_file' = IndexFileOf(procs[p].store.index)
    /\ SetProc(p, "add: index saved", procs[p].store)
    /\ UNCHANGED <<metadata_file, storeVars>>

\* _save_index lines 87-92: pickle.dump of texts, metadatas and dimension;
\* add_documents returns
WriteMetadataFile(p) ==
    /\ procs[p].pc = "add: index saved"
    /\ metadata_file' = MetadataFileOf([texts     |-> procs[p].store.texts,
                                        metadatas |-> procs[p].store.metadatas,
                                        dimension |-> procs[p].store.dimension])
    /\ SetProc(p, "idle", procs[p].store)
    /\ UNCHANGED <<index_file, storeVars>>

\* clear lines 66-68
BeginClear(p) ==
    /\ procs[p].pc = "idle"
    /\ SetProc(p, "clear: reset", clear(procs[p].store))
    /\ UNCHANGED <<index_file, metadata_file, storeVars>>

\* clear lines 69-72: both files are removed; clear returns
RemoveFiles(p) ==
    /\ procs[p].pc = "clear: reset"
    /\ index_file' = Absent
    /\ metadata_file' = Absent
    /\ SetProc(p, "idle", procs[p].store)
    /\ UNCHANGED storeVars

\* p enters get_stats (or similarity_search)
BeginRead(p) ==
    /\ procs[p].pc = "idle"
    /\ SetProc(p, "read", procs[p].store)
    /\ UNCHANGED <<index_file, metadata_file, storeVars>>

\* the read returns
EndRead(p) ==
    /\ procs[p].pc = "read"
    /\ procs' = [procs EXCEPT ![p].pc = "idle",
                              ![p].stats = get_stats(procs[p].store)]
    /\ UNCHANGED <<index_file, metadata_file, storeVars>>

\* p ends and is started again: it constructs a new store from the files
StartAgain(p) ==
    /\ procs[p].pc = "idle"
    /\ procs' = [procs EXCEPT ![p] = ProcessStart(Files)]
    /\ UNCHANGED <<index_file, metadata_file, storeVars>>

NextProcs ==
    \E p \in Processes :
        \/ BeginAdd(p)
        \/ WriteIndexFile(p)
        \/ WriteMetadataFile(p)
        \/ BeginClear(p)
        \/ RemoveFiles(p)
        \/ BeginRead(p)
        \/ EndRead(p)
        \/ StartAgain(p)

SpecProcs == Init /\ [][NextProcs]_vars

(***************************************************************************)
(* GeminiRAGSystem (src/gemini_rag_system.py) on top of the store object.  *)
(* add_documents builds texts and metadatas from the documents, embeds the *)
(* texts on a pool of worker threads and hands the three lists to          *)
(* VectorStore.add_documents; query embeds the question, searches the      *)
(* store and asks the model for an answer.  A batch has at most MaxBatch   *)
(* texts, fewer than the 8 workers of the pool: every embed_single task    *)
(* runs at once and the tasks finish in any order.                         *)
(***************************************************************************)
\* genai.embed_content(content=text, ...)['embedding'] when the call succeeds
embed_content(text) == Emb(text[2], 2)

\* a call of the embedding service or of the generative model
CallOutcomes == {"ok", "fails"}

\* the question embeddings: the queries of the model's width
Questions == {q \in Queries : Len(q) = 2}

\* query(self, question, k=5)
DefaultK == 5

\* an embed_single task that has not finished
Pending == [state |-> "pending", result |-> <<>>]

\* embed_single(text), lines 64-73: the embedding, or the exception raised
embed_single(text, outcome) ==
    IF outcome = "ok"
    THEN [state |-> "done", result |-> embed_content(text)]
    ELSE [state |-> "failed", result |-> <<>>]

\* results collected in the order the tasks finished
MapResults_AsCompleted(r) ==
    [i \in 1..Len(r.order) |-> r.futures[r.order[i]].result]

\* list(executor.map(embed_single, texts)), line 78, when no task failed:
\* the results in the order of submission
MapResults(r) == [i \in 1..Len(r.futures) |-> r.futures[i].result]

\* an executor.map whose results hide the exceptions of the tasks
FailedTasks_Unnoticed(r) == {}

\* the positions whose embed_single raised
FailedTasks(r) == {i \in 1..Len(r.futures) : r.futures[i].state = "failed"}

\* add_documents lines 25-53 and _generate_embeddings lines 75-78: texts and
\* metadatas are built from the documents, one embed_single task per text is
\* submitted to the pool
StartIngest ==
    \E b \in Batches :
        /\ rag.pc = "idle"
        /\ Len(texts) + Len(b) <= MaxTexts
        /\ ntotal(index) + Len(b) <= MaxVectors
        /\ rag' = [pc        |-> "embedding",
                   texts     |-> [i \in 1..Len(b) |-> TextOf(b[i])],
                   metadatas |-> [i \in 1..Len(b) |-> MetaOf(b[i])],
                   futures   |-> [i \in 1..Len(b) |-> Pending],
                   order     |-> <<>>,
                   last      |-> rag.last]
        /\ UNCHANGED <<index, texts, metadatas, dimension, index_file,
                       metadata_file, lastOp, fixedDim, procs, chunker,
                       session>>

\* a worker finishes embed_single for the text at position i
WorkerDone ==
    \E i \in 1..Len(rag.futures), outcome \in CallOutcomes :
        /\ rag.pc = "embedding"
        /\ rag.futures[i] = Pending
        /\ rag' = [rag EXCEPT !.futures[i] = embed_single(rag.texts[i], outcome),
                              !.order = Append(@, i)]
        /\ UNCHANGED <<index, texts, metadatas, dimension, index_file,
                       metadata_file, lastOp, fixedDim, procs, chunker,
                       session>>

\* all tasks have finished (the "with" block waits for them).  If one
\* raised, list(executor.map(...)) raises, _generate_embeddings raises
\* "Failed to generate embeddings" (line 82) and add_documents "Failed to
\* add documents to RAG system" (line 58); otherwise the embeddings are
\* returned and line 55 calls vector_store.add_documents.
FinishIngest ==
    /\ rag.pc = "embedding"
    /\ \A i \in 1..Len(rag.futures) : rag.futures[i] # Pending
    /\ IF FailedTasks(rag) # {}
       THEN /\ rag' = RagIdle([NoCall EXCEPT !.op = "add_documents",
                                             !.raised = TRUE,
                                             !.texts = rag.texts,
                                             !.failed = FailedTasks(rag),
                                             !.order = rag.order])
            /\ UNCHANGED <<index, texts, metadatas, dimension, index_file,
                           metadata_file>>
       ELSE LET embeddings == MapResults(rag)
                r == add_documents(Store, rag.texts, embeddings, PyList(rag.metadatas))
            IN  /\ rag' = RagIdle([NoCall EXCEPT !.op = "add_documents",
                                                 !.raised = r.raised,
                                                 !.texts = rag.texts,
                                                 !.embedded = TRUE,
                                                 !.embeddings = embeddings,
                                                 !.order = rag.order])
                /\ SetStore(r.st)
                /\ IF r.step = "save"
                   THEN \E f \in _save_index(r.st, Files, "ok") : SetFiles(f)
                   ELSE UNCHANGED <<index_file, metadata_file>>
    /\ UNCHANGED <<lastOp, fixedDim, procs, chunker,
                       session>>

\* query line 102: the source line of one result
source_info(metadata) == <<"title - source", metadata[2]>>

\* query lines 100-104: the source lines of the results, each once
RECURSIVE SourcesOf(_, _)
SourcesOf(results, seen) ==
    IF results = <<>>
    THEN seen
    ELSE LET info == source_info(Head(results).metadata) IN
         SourcesOf(Tail(results),
                   IF \E j \in 1..Len(seen) : seen[j] = info THEN seen
                   ELSE Append(seen, info))

\* query lines 87-113, the body of the "try": raised (an exception left the
\* body), the call that raised it, and the pair returned otherwise
query_try(st, q, embedding, generation) ==
    IF embedding = "fails"
    THEN [raised |-> TRUE, cause |-> "embed_content", answer |-> "", sources |-> <<>>]
    ELSE
    LET found == similarity_search(st, q, DefaultK) IN
    IF found.raised
    THEN [raised |-> TRUE, cause |-> "similarity_search", answer |-> "", sources |-> <<>>]
    ELSE [raised  |-> FALSE,
          cause   |-> "",
          answer  |-> IF generation = "ok" THEN "response.text"
                      ELSE "Error generating response",
          sources |-> SubSeq(SourcesOf(found.results, <<>>), 1,
                             Min(3, Len(SourcesOf(found.results, <<>>))))]

\* a query without the "except" of line 115: the exception reaches the caller
query_except_Missing(r) == r

\* query lines 115-116: "except Exception as e: return f'Error processing
\* query: ...', []"
query_except(r) ==
    IF r.raised
    THEN [r EXCEPT !.raised = FALSE, !.answer = "Error processing query",
                   !.sources = <<>>]
    ELSE r

\* GeminiRAGSystem.query(question)
query(st, q, embedding, generation) ==
    query_except(query_try(st, q, embedding, generation))

\* rag_system.query(prompt), app.py line 124
Query ==
    \E q \in Questions, embedding \in CallOutcomes, generation \in CallOutcomes :
        LET r == query(Store, q, embedding, generation) IN
        /\ rag.pc = "idle"
        /\ rag' = [rag EXCEPT !.last = [NoCall EXCEPT !.op = "query",
                                                      !.raised = r.raised,
                                                      !.answer = r.answer,
                                                      !.sources = r.sources,
                                                      !.cause = r.cause]]
        /\ UNCHANGED <<index, texts, metadatas, dimension, index_file,
                       metadata_file, lastOp, fixedDim, procs, chunker,
                       session>>

\* rag_system.clear_vector_store(), app.py line 48
ClearVectorStore ==
    /\ rag.pc = "idle"
    /\ SetStore(clear(Store))
    /\ index_file' = Absent
    /\ metadata_file' = Absent
    /\ UNCHANGED <<lastOp, fixedDim, procs, rag, chunker, session>>

\* RAGSystem (src/rag_system.py, the OpenAI embedding model: another vector
\* width) is run in the working directory while it holds no snapshot and
\* ingests document 1: its VectorStore writes the two files
RunRAGSystem ==
    LET c == CallOf(<<1>>, 1, "none")
        r == add_documents(VectorStore(DefaultDimension, Files),
                           c.texts, c.embeddings, c.metadatas)
    IN  /\ index_file = Absent
        /\ metadata_file = Absent
        /\ \E f \in _save_index(r.st, Files, "ok") : SetFiles(f)
        /\ UNCHANGED <<index, texts, metadatas, dimension, lastOp, fixedDim,
                       procs, rag, chunker, session>>

\* the application is started again: GeminiRAGSystem() constructs
\* VectorStore(dimension=768) from the files
NewGeminiRAGSystem ==
    /\ SetStore(VectorStore(GeminiDimension, Files))
    /\ rag' = RagIdle(NoCall)
    /\ UNCHANGED <<index_file, metadata_file, lastOp, fixedDim, procs, chunker,
                       session>>

InitRAG ==
    /\ LET st == VectorStore(GeminiDimension,
                              [index_file |-> Absent, metadata_file |-> Absent])
       IN  /\ index = st.index
           /\ texts = st.texts
           /\ metadatas = st.metadatas
           /\ dimension = st.dimension
    /\ index_file = Absent
    /\ metadata_file = Absent
    /\ lastOp = Op("init", NoArgs, FALSE, "", <<>>, <<>>)
    /\ fixedDim = 0
    /\ procs = [p \in Processes |->
                    ProcessStart([index_file |-> Absent, metadata_file |-> Absent])]
    /\ rag = RagIdle(NoCall)
    /\ chunker = NoChunking
    /\ session = NewSessionState([index_file |-> Absent, metadata_file |-> Absent])

NextRAG ==
    \/ StartIngest
    \/ WorkerDone
    \/ FinishIngest
    \/ Query
    \/ ClearVectorStore
    \/ RunRAGSystem
    \/ NewGeminiRAGSystem

SpecRAG == InitRAG /\ [][NextRAG]_vars

(***************************************************************************)
(* chunk_text, one loop iteration per step.  chunker.pc is "none" (no      *)
(* call), "called" (at line 26), "loop" (at line 32, the loop condition    *)
(* holds) or "done" (returned chunker.chunks); chunker.windows lists the   *)
(* pairs <<start, end>> of the iterations made so far.                     *)
(***************************************************************************)
\* lines 26-30
EnterChunkText ==
    /\ chunker.pc = "called"
    /\ chunker' = IF ShortText(chunker.text, chunker.max_chunk_size)
                  THEN [chunker EXCEPT !.pc = "done",
                                       !.chunks = ShortResult(chunker.text)]
                  ELSE [chunker EXCEPT !.pc = "loop"]
    /\ UNCHANGED <<index, texts, metadatas, dimension, index_file, metadata_file,
                   lastOp, fixedDim, procs, rag, session>>

\* lines 33-53: one iteration of the loop.  The iterations of one call are
\* followed up to one more than twice the length of the text.
Iterate ==
    /\ chunker.pc = "loop"
    /\ Len(chunker.windows) <= 2 * Len(chunker.text)
    /\ LET end  == WindowEnd(chunker.text, chunker.start, chunker.max_chunk_size)
           next == NextStart(chunker.start, end, chunker.overlap)
       IN  chunker' = [chunker EXCEPT
                        !.pc = IF LoopEnds(chunker.text, next) THEN "done" ELSE "loop",
                        !.start = next,
                        !.chunks = WithChunk(@, chunker.text, chunker.start, end),
                        !.windows = Append(@, <<chunker.start, end>>)]
    /\ UNCHANGED <<index, texts, metadatas, dimension, index_file, metadata_file,
                   lastOp, fixedDim, procs, rag, session>>

\* chunk_text is called with a text, a max_chunk_size and an overlap
InitChunk ==
    /\ LET st == VectorStore(DefaultDimension,
                              [index_file |-> Absent, metadata_file |-> Absent])
       IN  /\ index = st.index
           /\ texts = st.texts
           /\ metadatas = st.metadatas
           /\ dimension = st.dimension
    /\ index_file = Absent
    /\ metadata_file = Absent
    /\ lastOp = Op("init", NoArgs, FALSE, "", <<>>, <<>>)
    /\ fixedDim = 0
    /\ procs = [p \in Processes |->
                    ProcessStart([index_file |-> Absent, metadata_file |-> Absent])]
    /\ rag = RagIdle(NoCall)
    /\ session = NewSessionState([index_file |-> Absent, metadata_file |-> Absent])
    /\ \E text \in UNION {[1..n -> Alphabet] : n \in 0..MaxTextLen},
          max_chunk_size \in 1..MaxChunkSize,
          overlap \in 0..MaxOverlap :
           chunker = [NoChunking EXCEPT !.pc = "called", !.text = text,
                                        !.max_chunk_size = max_chunk_size,
                                        !.overlap = overlap]

NextChunk == EnterChunkText \/ Iterate

SpecChunk == InitChunk /\ [][NextChunk]_vars

(***************************************************************************)
(* One session of app.py in a working directory, and runs of the           *)
(* process_documents script in it.  The store object of the variables      *)
(* index, texts, metadatas, dimension is rag_system.vector_store;          *)
(* session.process_docs is process_docs.vector_store; both were            *)
(* constructed from the two files when the session began (app.py lines     *)
(* 18-29).  Texts are character sequences here and metadatas the mappings  *)
(* the ingestion paths build.                                              *)
(***************************************************************************)
\* ./test_documents: missing, empty, with one of the files, or with the two
\* files that yield no document
Folders ==
    {MissingFolder, Folder(<<>>)} \cup
    {Folder(<<f>>) : f \in FolderFiles} \cup
    {Folder(<<f, g>>) : f \in {h \in FolderFiles : ~h.readable},
                        g \in {h \in FolderFiles : h.name = "tiny.txt"}}

\* app.py lines 46-50: the button "Clear DB"
ClearDB ==
    /\ SetStore(clear(Store))
    /\ index_file' = Absent
    /\ metadata_file' = Absent
    /\ session' = [session EXCEPT !.documents_loaded = FALSE,
                                  !.last = [NoAction EXCEPT !.op = "Clear DB",
                                                            !.cleared = TRUE]]
    /\ UNCHANGED <<lastOp, fixedDim, procs, rag, chunker>>

\* app.py lines 53-71: the button "Scrape", enabled while documents_loaded
\* is false.  rag_system.add_documents chunks the documents, embeds the
\* chunks (all calls end as outcome says) and adds them to its store; an
\* exception is shown by line 71.
Scrape ==
    \E documents \in ScrapeResults, outcome \in CallOutcomes :
        LET c == (CHOOSE e \in ScrapeChunksTable : e.documents = documents).chunks
            r == add_documents(Store, c.texts,
                               [i \in 1..Len(c.texts) |-> EmbedText(c.texts[i])],
                               PyList(c.metadatas))
            stored == documents # <<>> /\ c.texts # <<>> /\ outcome = "ok"
            raised == \/ documents # <<>> /\ c.texts # <<>> /\ outcome = "fails"
                      \/ stored /\ r.raised
        IN  /\ ~session.documents_loaded
            /\ Len(texts) + Len(c.texts) <= MaxStored
            /\ IF stored
               THEN /\ SetStore(r.st)
                    /\ IF r.step = "save"
                       THEN \E f \in _save_index(r.st, Files, "ok") : SetFiles(f)
                       ELSE UNCHANGED <<index_file, metadata_file>>
               ELSE UNCHANGED <<index, texts, metadatas, dimension, index_file,
                                metadata_file>>
            /\ session' = [session EXCEPT
                             !.documents_loaded = documents # <<>> /\ ~raised,
                             !.last = [NoAction EXCEPT
                                          !.op = "Scrape",
                                          !.added = IF stored THEN Len(c.texts) ELSE 0,
                                          !.raised = raised]]
            /\ UNCHANGED <<lastOp, fixedDim, procs, rag, chunker>>

\* app.py lines 76-82: the button "Process PDFs" calls
\* process_docs.process_folder('./test_documents', True)
ProcessPDFs ==
    \E folder \in Folders, outcome \in CallOutcomes :
        LET r == process_folder(session.process_docs, Files, folder, TRUE, outcome) IN
        /\ SetFiles(r.files)
        /\ session' = [session EXCEPT
                         !.process_docs = r.st,
                         !.last = [NoAction EXCEPT !.op = "Process PDFs",
                                                   !.added = r.added,
                                                   !.cleared = r.cleared,
                                                   !.raised = r.raised]]
        /\ UNCHANGED <<index, texts, metadatas, dimension, lastOp, fixedDim, procs,
                       rag, chunker>>

\* app.py line 124: a chat question; last.retrieved is the number of texts
\* similarity_search returns for it
ChatQuery ==
    \E q \in Questions :
        LET found == similarity_search(Store, q, DefaultK) IN
        /\ session' = [session EXCEPT
                         !.last = [NoAction EXCEPT
                                      !.op = "query",
                                      !.raised = found.raised,
                                      !.retrieved = Len(found.results)]]
        /\ UNCHANGED <<index, texts, metadatas, dimension, index_file,
                       metadata_file, lastOp, fixedDim, procs, rag, chunker>>

\* process_documents.py lines 176-202: the script is run in the working
\* directory; its DocumentEmbeddingProcessor constructs a store from the two
\* files and calls process_folder(folder, clear_existing); its embedding
\* calls succeed
RunScript ==
    \E folder \in Folders, clear_existing \in BOOLEAN :
        LET r == process_folder(VectorStore(GeminiDimension, Files), Files, folder,
                                clear_existing, "ok") IN
        /\ Len(r.st.texts) <= MaxStored
        /\ SetFiles(r.files)
        /\ session' = [session EXCEPT
                         !.last = [NoAction EXCEPT !.op = "script",
                                                   !.added = r.added,
                                                   !.cleared = r.cleared,
                                                   !.raised = r.raised]]
        /\ UNCHANGED <<index, texts, metadatas, dimension, lastOp, fixedDim, procs,
                       rag, chunker>>

NextApp ==
    \/ ClearDB
    \/ Scrape
    \/ ProcessPDFs
    \/ ChatQuery
    \/ RunScript

SpecApp == InitRAG /\ [][NextApp]_vars

(***************************************************************************)
(* Properties.                                                             *)
(***************************************************************************)
InMemory == <<index, texts, metadatas>>
Snapshot == <<index_file, metadata_file>>

\* the step is a call of add_documents with non-empty texts and embeddings
\* (one that gets past the early return of line 22)
AddStep == lastOp'.op = "add" /\ ~NothingToAdd(lastOp'.args.texts, lastOp'.args.embeddings)

\* the arguments are three lists of one length
SameLengths(args) ==
    /\ ~args.metadatas.none
    /\ Len(args.texts) = Len(args.embeddings)
    /\ Len(args.texts) = Len(args.metadatas.items)

\* some row of the embeddings argument does not have width w
OtherWidth(args, w) == \E i \in 1..Len(args.embeddings) : Len(args.embeddings[i]) # w

\* C1: position integrity.  In every reachable state texts, metadatas and the
\* index have one length, and the vector, the text and the metadata at each
\* position belong to one document.
C1_PositionIntegrity ==
    /\ Len(texts) = Len(metadatas)
    /\ Len(texts) = ntotal(index)
    /\ \A n \in 1..Len(texts) :
           \E d \in Docs : /\ texts[n] = TextOf(d)
                           /\ metadatas[n] = MetaOf(d)
                           /\ index.vecs[n] = normalize_L2(Emb(d, index.d))

\* C2: a failed add is all-or-nothing.  A call of add_documents that raises
\* leaves index, texts, metadatas and the two snapshot files as they were.
C2_FailedAddChangesNothing ==
    [][lastOp'.op = "add" /\ lastOp'.raised => UNCHANGED <<InMemory, Snapshot>>]_vars

\* C3: add_documents called with texts, embeddings and metadatas lists that
\* are not of one length raises and leaves index, texts, metadatas and the
\* snapshot unchanged.  (Stated for non-empty texts and embeddings, where the
\* no-op rule for empty arguments does not apply.)
C3_MismatchedLengthsRejected ==
    [][AddStep /\ ~lastOp'.args.metadatas.none /\ ~SameLengths(lastOp'.args)
           => lastOp'.raised /\ UNCHANGED <<InMemory, Snapshot>>]_vars

\* the store a new process constructs from the files
Reconstructed == VectorStore(DefaultDimension, Files)

\* C4: round trip through the snapshot.  After add_documents / clear calls
\* that returned without error, the store constructed from the files has the
\* texts, metadatas, dimension and index size of the store in memory, reports
\* as many documents, and answers every search alike.
C4_RoundTrip ==
    lastOp.op \in {"add", "clear"} /\ ~lastOp.raised =>
        /\ Reconstructed.texts = texts
        /\ Reconstructed.metadatas = metadatas
        /\ Reconstructed.dimension = dimension
        /\ ntotal(Reconstructed.index) = ntotal(index)
        /\ get_stats(Reconstructed).total_documents = Len(texts)
        /\ \A q \in Queries, k \in 1..MaxK :
               similarity_search(Reconstructed, q, k) = similarity_search(Store, q, k)

\* C5: for k >= 1 the list similarity_search returns has non-increasing
\* scores and the ranks 1, 2, ..., n.
C5_ScoresAndRanks ==
    lastOp.op = "search" /\ lastOp.args.k >= 1 /\ ~lastOp.raised =>
        /\ \A j \in 1..(Len(lastOp.results) - 1) :
               ScoreGE(lastOp.results[j].score, lastOp.results[j + 1].score)
        /\ \A j \in 1..Len(lastOp.results) : lastOp.results[j].rank = j

\* the positions of the index among the first n pairs index.search returned
Reported(hits, n) == {hits[j].idx : j \in 1..n}

\* C6: similarity_search returns exactly min(k, index size) entries, the ones
\* with the highest inner product against the query.  (Stated for k >= 1 and
\* a search that returned.)
C6_TopK ==
    lastOp.op = "search" /\ lastOp.args.k >= 1 /\ ~lastOp.raised =>
        LET n == Min(lastOp.args.k, ntotal(index))
            qn == normalize_L2(lastOp.args.q)
        IN  /\ Len(lastOp.results) = n
            /\ n <= Len(lastOp.hits)
            /\ \A j \in 1..n :
                   /\ lastOp.hits[j].idx \in 0..(Len(texts) - 1)
                   /\ lastOp.results[j].text = texts[lastOp.hits[j].idx + 1]
                   /\ lastOp.results[j].score = ScoreAt(index, qn, lastOp.hits[j].idx)
                   /\ \A p \in (0..(ntotal(index) - 1)) \ Reported(lastOp.hits, n) :
                          ScoreGE(lastOp.results[j].score, ScoreAt(index, qn, p))

\* C7: similarity_search bounds-checks every position the index reports.
\* Once index.search has returned its pairs the call does not raise, and
\* every entry it returns is the text and the metadata at a reported position
\* that lies inside both lists.
C7_BoundsChecked ==
    lastOp.op = "search" /\ lastOp.hits # <<>> =>
        /\ ~lastOp.raised
        /\ \A j \in 1..Len(lastOp.results) :
               LET e == lastOp.results[j]
                   idx == lastOp.hits[e.rank].idx
               IN  /\ idx \in 0..(Len(texts) - 1)
                   /\ idx \in 0..(Len(metadatas) - 1)
                   /\ e.text = texts[idx + 1]
                   /\ e.metadata = metadatas[idx + 1]

\* C8: similarity_search on a store whose index is uninitialized or that
\* holds no texts returns the empty list and does not raise, for every query
\* and every k.
C8_EmptyStoreSearch ==
    lastOp.op = "search" /\ (index = None \/ Len(texts) = 0) =>
        ~lastOp.raised /\ lastOp.results = <<>>

\* C8 witness: a search with k <= 0 on the uninitialized store returned [].
C8_Witness ==
    /\ lastOp.op = "search"
    /\ index = None
    /\ lastOp.args.k <= 0
    /\ ~lastOp.raised
    /\ lastOp.results = <<>>

SnapshotOfStore ==
    [index_file    |-> IF index # None THEN IndexFileOf(index) ELSE index_file,
     metadata_file |-> MetadataFileOf([texts |-> texts, metadatas |-> metadatas,
                                       dimension |-> dimension])]

\* C11: a failure of a snapshot write during add_documents is raised to the
\* caller.  Whenever add_documents has stored a batch (it got past the early
\* return) and returned normally, the two files hold the store in memory.
C11_SaveFailureRaised ==
    lastOp.op = "add" /\ lastOp.step = "save" /\ ~lastOp.raised =>
        Files = SnapshotOfStore

\* index, texts and metadatas of two store objects agree
SameContents(a, b) ==
    a.index = b.index /\ a.texts = b.texts /\ a.metadatas = b.metadatas

\* the store a new process constructs from the files after the step
ReconstructedNext ==
    VectorStore(DefaultDimension,
                [index_file |-> index_file', metadata_file |-> metadata_file'])

\* the store object after the step
StoreNext == [index |-> index', texts |-> texts', metadatas |-> metadatas',
              dimension |-> dimension']

\* C12: crash safety of the last completed operation.  When the process
\* stops inside add_documents, the store a new process constructs from the
\* files holds either what the last completed operation left (the store
\* before the call) or what the interrupted add built, and its texts,
\* metadatas and index have one length.
C12_CrashSafety ==
    [][lastOp'.op = "crash" =>
           /\ \/ SameContents(ReconstructedNext, Store)
              \/ SameContents(ReconstructedNext, StoreNext)
           /\ Len(ReconstructedNext.texts) = Len(ReconstructedNext.metadatas)
           /\ Len(ReconstructedNext.texts) = ntotal(ReconstructedNext.index)]_vars

\* _load_index fails on the files: metadata.pkl cannot be unpickled, or
\* vector_index.faiss is read (texts were recovered) and cannot be read
ReadFails ==
    \/ metadata_file = Corrupt
    \/ index_file = Corrupt /\ metadata_file.record.texts # <<>>

\* C13: constructing a VectorStore from files of which one cannot be read or
\* deserialized gives the empty store: index uninitialized, texts and
\* metadatas empty, get_stats() all zero.
C13_LoadFailureGivesEmptyStore ==
    lastOp.op = "restart" /\ ReadFails =>
        /\ index = None
        /\ texts = <<>>
        /\ metadatas = <<>>
        /\ get_stats(Store) = EmptyStats

\* C13 witness: a store was constructed from a readable metadata.pkl that
\* holds texts and a truncated vector_index.faiss.
C13_Witness ==
    /\ lastOp.op = "restart"
    /\ index_file = Corrupt
    /\ metadata_file.state = "ok"
    /\ metadata_file.record.texts # <<>>
    /\ texts = <<>>
    /\ index = None

\* both files were written by one completed _save_index of a store that
\* holds documents
ValidSnapshot ==
    /\ index_file.state = "ok"
    /\ metadata_file.state = "ok"
    /\ metadata_file.record.texts # <<>>
    /\ Len(metadata_file.record.texts) = ntotal(index_file.index)
    /\ Len(metadata_file.record.texts) = Len(metadata_file.record.metadatas)

\* C14: a load succeeds only when both files exist and agree.  After either
\* file of a valid snapshot is deleted, a newly constructed store is the
\* empty store (total_documents 0, index_size 0); and a store constructed
\* from any file pair has an index only if it has texts.
C14_BothArtifactsNeeded ==
    [][/\ lastOp'.op = "delete" /\ ValidSnapshot =>
              /\ get_stats(ReconstructedNext).total_documents = 0
              /\ get_stats(ReconstructedNext).index_size = 0
       /\ ReconstructedNext.index # None => ReconstructedNext.texts # <<>>]_vars

\* C15: clear is total and idempotent.  After clear(), from whatever state,
\* the index is uninitialized, texts and metadatas are empty, get_stats() is
\* all zero and neither snapshot file exists; the call did not raise, and
\* another clear() leaves that same state.
C15_ClearTotalIdempotent ==
    lastOp.op = "clear" =>
        /\ ~lastOp.raised
        /\ index = None
        /\ texts = <<>>
        /\ metadatas = <<>>
        /\ get_stats(Store) = EmptyStats
        /\ index_file = Absent
        /\ metadata_file = Absent
        /\ clear(Store) = Store

\* C15 witness: clear() has emptied a store object that had stored documents
\* (its dimension is the one an add fixed).
C15_Witness ==
    /\ lastOp.op = "clear"
    /\ fixedDim # 0
    /\ dimension = fixedDim
    /\ index = None
    /\ index_file = Absent
    /\ metadata_file = Absent

\* C16: add_documents with an empty texts list or an empty embeddings list
\* is a no-op: it does not raise, and index, texts, metadatas, dimension and
\* the two snapshot files are unchanged.
C16_EmptyAddIsNoOp ==
    [][lastOp'.op = "add" /\ (lastOp'.args.texts = <<>> \/ lastOp'.args.embeddings = <<>>)
           => ~lastOp'.raised /\ UNCHANGED <<InMemory, dimension, Snapshot>>]_vars

\* C16 witness: add_documents was called with texts and an empty embeddings
\* list on a store that holds documents, and returned at once.
C16_Witness ==
    /\ lastOp.op = "add"
    /\ lastOp.step = "return"
    /\ lastOp.args.texts # <<>>
    /\ lastOp.args.embeddings = <<>>
    /\ ~lastOp.raised
    /\ ntotal(index) > 0
    /\ index_file # Absent

\* p is inside add_documents or clear
Mutating(p) == procs[p].pc \in {"add: updated", "add: index saved", "clear: reset"}

\* p is between the in-memory update and the end of the snapshot write of an add
InTornAdd(p) == procs[p].pc \in {"add: updated", "add: index saved"}

\* C17: mutations are mutually exclusive.  No two processes are inside
\* add_documents / clear at the same time, and no process is inside
\* similarity_search / get_stats while another is between the in-memory
\* update and the snapshot write of an add.
C17_MutualExclusion ==
    \A p, q \in Processes :
        p # q => /\ ~(Mutating(p) /\ Mutating(q))
                 /\ ~(procs[p].pc = "read" /\ InTornAdd(q))

\* C18: embedding order under the worker pool.  Whenever
\* _generate_embeddings has returned, in whatever order the workers
\* finished, it returned as many vectors as texts were submitted and the
\* i-th vector is the embedding of the i-th text.
C18_EmbeddingOrder ==
    rag.last.op = "add_documents" /\ rag.last.embedded =>
        /\ Len(rag.last.embeddings) = Len(rag.last.texts)
        /\ \A i \in 1..Len(rag.last.texts) :
               rag.last.embeddings[i] = embed_content(rag.last.texts[i])

\* C18 witness: a batch of two different texts was embedded, the task of the
\* second text finishing first, and was stored.
C18_Witness ==
    /\ rag.last.op = "add_documents"
    /\ rag.last.embedded
    /\ ~rag.last.raised
    /\ rag.last.order = <<2, 1>>
    /\ rag.last.embeddings[1] # rag.last.embeddings[2]
    /\ ntotal(index) = 2

\* the last n entries of a list
LastN(lst, n) == SubSeq(lst, Len(lst) - n + 1, Len(lst))

\* C19: one failing embedding call does not abort an ingestion batch.  When
\* embed_single has failed for a text of the batch, add_documents still
\* returns normally and every text of the batch is stored, with a vector
\* and its metadata.
C19_FailedEmbeddingDoesNotAbort ==
    rag.last.op = "add_documents" /\ rag.last.failed # {} =>
        /\ ~rag.last.raised
        /\ Len(texts) >= Len(rag.last.texts)
        /\ LastN(texts, Len(rag.last.texts)) = rag.last.texts
        /\ ntotal(index) = Len(texts)
        /\ Len(metadatas) = Len(texts)

\* C20: query() never raises to its caller; when the embedding of the
\* question or the similarity search fails, it returns an error text and an
\* empty source list.
C20_QueryNeverRaises ==
    rag.last.op = "query" =>
        /\ ~rag.last.raised
        /\ rag.last.answer # ""
        /\ rag.last.cause # "" =>
               /\ rag.last.answer = "Error processing query"
               /\ rag.last.sources = <<>>

\* C20 witness: the similarity search of a query failed (the index holds
\* vectors of another embedding model) and the query returned the error text.
C20_Witness ==
    /\ rag.last.op = "query"
    /\ rag.last.cause = "similarity_search"
    /\ ~rag.last.raised
    /\ rag.last.answer = "Error processing query"
    /\ ntotal(index) > 0

\* C21: a text no longer than max_chunk_size.  chunk_text returns one
\* element, the text without its leading and trailing whitespace, or the
\* empty list when the text is empty or only whitespace.
C21_ShortTextTrimmed ==
    (chunker.pc = "done" /\ Len(chunker.text) <= chunker.max_chunk_size)
        => chunker.chunks = IF strip(chunker.text) = <<>>
                            THEN <<>>
                            ELSE <<strip(chunker.text)>>

\* offset o lies in the window w = <<start, end>> of text
InWindow(text, w, o) == w[1] <= o /\ o < Min(w[2], Len(text))

\* offset o lies in the span of the chunk cut from the window w: in the
\* window, with a character that strip() keeps at or before it and one at or
\* after it
InChunkSpan(text, w, o) ==
    /\ InWindow(text, w, o)
    /\ \E a \in w[1]..o : text[a + 1] \notin Whitespace
    /\ \E b \in o..(Min(w[2], Len(text)) - 1) : text[b + 1] \notin Whitespace

\* chunk_text has returned from its loop
LoopReturned == chunker.pc = "done" /\ ~ShortText(chunker.text, chunker.max_chunk_size)

\* the offsets of the text of the call
Offsets == 0..(Len(chunker.text) - 1)

\* C22 as stated: coverage.  When chunk_text has cut a text longer than
\* max_chunk_size, every offset of the text lies in the span of a returned
\* chunk, the trimming of the chunks counted.
C22_CoverageOfChunks ==
    LoopReturned =>
        \A o \in Offsets :
            \E i \in 1..Len(chunker.windows) :
                InChunkSpan(chunker.text, chunker.windows[i], o)

\* C22 amended: every offset of the text lies in a window text[start:end]
\* of the loop, and every character that is not whitespace lies in the span
\* of a returned chunk: only whitespace at the edge of a window is in no
\* chunk.
C22_CoverageOfWindows ==
    LoopReturned =>
        \A o \in Offsets :
            /\ \E i \in 1..Len(chunker.windows) :
                   InWindow(chunker.text, chunker.windows[i], o)
            /\ chunker.text[o + 1] \notin Whitespace
                   => \E i \in 1..Len(chunker.windows) :
                          InChunkSpan(chunker.text, chunker.windows[i], o)

\* a text cut into several windows with a whitespace character, between two
\* chunks, that no returned chunk holds
C22_Witness ==
    /\ LoopReturned
    /\ Len(chunker.chunks) >= 2
    /\ \E o \in Offsets :
           /\ chunker.text[o + 1] \in Whitespace
           /\ \A i \in 1..Len(chunker.windows) :
                  ~InChunkSpan(chunker.text, chunker.windows[i], o)
           /\ \E a, b \in Offsets :
                  a < o /\ o < b /\ chunker.text[a + 1] \notin Whitespace
                                 /\ chunker.text[b + 1] \notin Whitespace

\* C23: termination.  Every iteration of the loop of chunk_text moves start
\* forward by at least 1, whatever max_chunk_size and overlap are; the loop
\* is left exactly when start has reached len(text), so that it makes at
\* most len(text) iterations.
C23_Termination ==
    [][chunker.pc = "loop" =>
          /\ chunker'.start >= chunker.start + 1
          /\ chunker'.pc = "done" <=> chunker'.start >= Len(chunker.text)
          /\ chunker'.pc \in {"loop", "done"}
          /\ Len(chunker'.windows) <= Len(chunker.text)]_vars

\* a call with overlap >= max_chunk_size has returned after several iterations
C23_Witness ==
    /\ LoopReturned
    /\ chunker.overlap >= chunker.max_chunk_size
    /\ Len(chunker.windows) >= 2

\* ceil(a / b) for a >= 0 and b >= 1
Ceil(a, b) == (a + b - 1) \div b

\* the window w = <<start, end>> of a call with max_chunk_size m was cut at
\* a sentence break before start + m
PulledBack(w, m) == w[2] < w[1] + m

\* C24 as stated: when overlap < max_chunk_size, chunk_text makes at most
\* ceil(len(T) / (max_chunk_size - overlap)) iterations on a text T.
C24_IterationBound ==
    (chunker.pc = "done" /\ chunker.overlap < chunker.max_chunk_size)
        => Len(chunker.windows)
               <= Ceil(Len(chunker.text), chunker.max_chunk_size - chunker.overlap)

\* C24 amended: when overlap < max_chunk_size, chunk_text makes at most
\* len(T) iterations on a text T, and at most
\* ceil(len(T) / (max_chunk_size - overlap)) when no cut is pulled back to a
\* sentence break.
C24_IterationBoundWithoutPullBack ==
    (chunker.pc = "done" /\ chunker.overlap < chunker.max_chunk_size)
        => /\ Len(chunker.windows) <= Len(chunker.text)
           /\ (\A i \in 1..Len(chunker.windows) :
                   ~PulledBack(chunker.windows[i], chunker.max_chunk_size))
                  => Len(chunker.windows)
                         <= Ceil(Len(chunker.text),
                                 chunker.max_chunk_size - chunker.overlap)

\* a call with 0 < overlap < max_chunk_size has returned after a cut that was
\* pulled back, with more iterations than
\* ceil(len(T) / (max_chunk_size - overlap))
C24_Witness ==
    /\ LoopReturned
    /\ 0 < chunker.overlap
    /\ chunker.overlap < chunker.max_chunk_size
    /\ \E i \in 1..Len(chunker.windows) :
           PulledBack(chunker.windows[i], chunker.max_chunk_size)
    /\ Len(chunker.windows)
           > Ceil(Len(chunker.text), chunker.max_chunk_size - chunker.overlap)

\* the sentence breaks in the last overlap characters of the window that
\* begins at start and would end at end
BreaksInOverlap(text, start, end, overlap) ==
    LET from == Max(end - overlap, start) IN
    PunctuationBreaks(text, from, end) \cup BlankLineBreaks(text, from, end)

\* C25: every window that does not reach the end of the text is cut at the
\* furthest sentence break in its last overlap characters, or at
\* start + max_chunk_size when there is none, and no returned chunk is
\* longer than max_chunk_size.
C25_BreakWithinOverlap ==
    /\ \A i \in 1..Len(chunker.windows) :
           LET start == chunker.windows[i][1]
               end   == start + chunker.max_chunk_size
               found == BreaksInOverlap(chunker.text, start, end, chunker.overlap)
           IN  end < Len(chunker.text)
                   => chunker.windows[i][2] = IF found # {} THEN SetMax(found) ELSE end
    /\ LoopReturned
           => \A i \in 1..Len(chunker.chunks) :
                  Len(chunker.chunks[i]) <= chunker.max_chunk_size

\* C28: add_documents on a store without an index whose texts and metadatas
\* are not empty.  The call discards the stale entries: afterwards texts,
\* metadatas and the index hold the documents of the call and nothing else,
\* and so do the two files it has rewritten.
C28_StaleListsDiscarded ==
    [][(lastOp'.op = "add" /\ lastOp'.step = "save" /\ index = None /\ texts # <<>>)
          => /\ texts' = lastOp'.args.texts
             /\ metadatas' = lastOp'.args.metadatas.items
             /\ ntotal(index') = Len(lastOp'.args.texts)
             /\ index_file' = IndexFileOf(index')
             /\ metadata_file'.record.texts = lastOp'.args.texts
             /\ metadata_file'.record.metadatas = lastOp'.args.metadatas.items]_vars

\* C28 witness: add_documents has returned from a call on a store that held
\* texts and no index, and the store holds the documents of the call
C28_Witness ==
    /\ lastOp.op = "add"
    /\ lastOp.step = "save"
    /\ ~lastOp.raised
    /\ lastOp.stale > 0
    /\ ntotal(index) = Len(lastOp.args.texts)

\* the step belongs to a call of GeminiRAGSystem.add_documents: it is
\* submitted, a worker finishes a task, or it returns
IngestStep ==
    \/ rag.pc = "idle" /\ rag'.pc = "embedding"
    \/ rag.pc = "embedding" /\ rag'.pc = "embedding" /\ rag' # rag
    \/ rag.pc = "embedding" /\ rag'.last.op = "add_documents" /\ rag'.pc = "idle"

\* embed_single has raised for a text of the batch in progress
SomeTaskFailed == \E i \in 1..Len(rag.futures) : rag.futures[i].state = "failed"

\* C29: add_documents of the RAG system touches the vector store only after
\* every chunk of the batch has been embedded.  No step of the call before
\* its return changes the store or the two files, and when embed_single has
\* failed for a chunk the call raises and leaves index, texts, metadatas and
\* the two files as they were.
C29_StoreUntouchedOnFailure ==
    [][IngestStep =>
          /\ rag'.pc = "embedding" => UNCHANGED <<InMemory, Snapshot>>
          /\ (rag'.pc = "idle" /\ SomeTaskFailed)
                 => rag'.last.raised /\ UNCHANGED <<InMemory, Snapshot>>]_vars

\* C29 witness: add_documents has raised for a batch of two chunks of which
\* one was embedded and one failed, and neither is in the store
C29_Witness ==
    /\ rag.pc = "idle"
    /\ rag.last.op = "add_documents"
    /\ rag.last.raised
    /\ Len(rag.last.texts) = 2
    /\ Cardinality(rag.last.failed) = 1
    /\ \A n \in 1..Len(texts) : texts[n] # rag.last.texts[1] /\ texts[n] # rag.last.texts[2]

\* the contents the producers hand to the core, by source: the scraped
\* pages, and the cleaned text of each readable file of the folder
ParentContents ==
    {[source |-> d.source, content |-> d.content] :
         d \in UNION {{documents[i] : i \in 1..Len(documents)} :
                          documents \in ScrapeResults}} \cup
    {[source  |-> f.name,
      content |-> clean_text(IF f.suffix = ".pdf" THEN PageHeading \o f.content
                             ELSE f.content)] :
         f \in {g \in FolderFiles : g.readable}}

\* the chunks of each of them
ParentChunks ==
    {[source |-> p.source,
      chunks |-> chunk_text(p.content, ChunkSize, ChunkOverlap)] : p \in ParentContents}

\* text, stored with the metadata m, is the chunk number m.chunk_id of the
\* m.total_chunks chunks of its parent document
IsChunkOfParent(text, m) ==
    \E p \in ParentChunks :
        /\ p.source = m.source
        /\ m.total_chunks = Len(p.chunks)
        /\ 0 <= m.chunk_id
        /\ m.chunk_id < m.total_chunks
        /\ p.chunks[m.chunk_id + 1] = text

\* every text of the store st is a chunk of at most ChunkSize characters
AllChunked(st) ==
    \A n \in 1..Min(Len(st.texts), Len(st.metadatas)) :
        /\ Len(st.texts[n]) <= ChunkSize
        /\ IsChunkOfParent(st.texts[n], st.metadatas[n])

\* C26: every text an ingestion path has stored was chunked first.  In the
\* store of the RAG system, in the store of the DocumentEmbeddingProcessor
\* and in the snapshot, each text has at most 1000 characters and is the
\* chunk of its parent document that its chunk_id and total_chunks name.
C26_StoredTextsAreChunks ==
    /\ AllChunked(Store)
    /\ AllChunked(session.process_docs)
    /\ metadata_file.state = "ok" => AllChunked(metadata_file.record)

\* the store in memory that answers the queries holds what the two files hold
MatchesSnapshot == SameContents(Store, VectorStore(GeminiDimension, Files))

\* the step is one of the buttons Clear DB, Scrape and Process PDFs or a
\* chat question of the session
UIStep == session'.last.op \in {"Clear DB", "Scrape", "Process PDFs", "query"}

\* C27: in app.py the store that answers the queries stays consistent with
\* the snapshot.  No button and no chat question of a session takes
\* rag_system.vector_store from holding the texts, metadatas and index of
\* the two files to holding something else.
C27_QueryStoreMatchesSnapshot ==
    [][(UIStep /\ MatchesSnapshot) => MatchesSnapshot']_vars

\* the step is a call of process_folder, from the button Process PDFs or
\* from the script
ProcessFolderStep == session'.last.op \in {"Process PDFs", "script"}

\* C30: process_folder never destroys existing contents without replacing
\* them.  When a call of process_folder has passed no text to the store,
\* the store object of its DocumentEmbeddingProcessor and the two files are
\* as they were before the call.
C30_NothingAddedNothingLost ==
    [][(ProcessFolderStep /\ session'.last.added = 0)
          => /\ UNCHANGED Snapshot
             /\ session'.process_docs = session.process_docs]_vars

====
